---- MODULE Spec2Model ----
(***************************************************************************)
(* Model of the speech client's recognizer loop                            *)
(* (mycroft/client/speech/listener.py): the AudioProducer and              *)
(* AudioConsumer threads, the queue between them, the shared               *)
(* RecognizerLoopState and the RecognizerLoop orchestrator (start_async,   *)
(* stop, reload, mute/unmute/force_unmute, sleep/awaken).                  *)
(***************************************************************************)
EXTENDS Integers, Sequences, FiniteSets, TLC

(***************************************************************************)
(* Bounds of the model.                                                    *)
(***************************************************************************)
\* buffers one producer thread captures during its life
MaxBuffers == 2
\* reloads of the configuration
MaxReloads == 1
\* cap on the mute count in the full specification
MaxMuteCalls == 2
\* length of a recorded sequence of mute()/unmute() calls
MaxCalls == 6
\* largest frame_data length, in bytes
MaxFrameLen == 4
\* polling ticks of RecognizerLoop.run
MaxTicks == 2
\* changes of the configuration
MaxChanges == 2
\* the configurations are 0..MaxConfig
MaxConfig == 2
\* external threads that call mute() or unmute() at the same time
NumCallers == 2

VARIABLES
    state,              \* self.state: [running, sleeping]
    queue,              \* the Queue shared by producer and consumer
    producer_pc,        \* position of AudioProducer.run
    consumer_pc,        \* position of AudioConsumer.run / read
    audio,              \* the buffer AudioConsumer.read dequeued last
    observed_sleeping,  \* state.sleeping as read() tested it for that buffer
    events,             \* events emitted while handling that buffer
    handled,            \* how the handling of that buffer ended
    sleep_during,       \* sleep() ran after wake_up cleared state.sleeping
    stop_signaled,      \* recognizer.stop() was called on this recognizer
    ctl_pc,             \* position of the orchestrator (stop / reload)
    ctl_op,             \* the operation the orchestrator is in
    reloads,            \* reloads performed
    n_put,              \* audio buffers the producer has enqueued
    n_handled,          \* audio buffers whose handling has finished
    mute_calls,         \* self.mute_calls
    microphone,         \* self.microphone
    last_call,          \* the last of mute / unmute / force_unmute called,
                        \* and the mute count it was called with
    calls,              \* the recorded sequence of mute()/unmute() calls
    alive,              \* threads started and not terminated, per role
    config,             \* what ConfigurationManager.get() returns now
    config_core,        \* self.config_core: the configuration loaded last
    config_hash,        \* self._config_hash
    run_pc,             \* position of RecognizerLoop.run
    ticks,              \* polling ticks run() has made
    changes,            \* changes of the configuration so far
    last_change,        \* where run() was, and its tick count, at the last change
    stt_outcome,        \* how self.stt.execute ended for that buffer
    text,               \* transcribe()'s `text` for that buffer
    stt_calls,          \* calls of self.stt.execute made for that buffer
    utterances,         \* the `utterances` payloads of the
                        \* recognizer_loop:utterance events for that buffer
    history,            \* when recording: the buffers enqueued, the buffers
                        \* handled with the outcome of their STT call, and
                        \* the utterances emitted, each in order, and the
                        \* outcome and events of the producer's last listen
    word,               \* the consumer's self.word: the pending hotword phrase
    collab,             \* the calls of the session registry, the wake-up
                        \* detector and the STT backend made for that buffer
    reported,           \* the phrases carried by the recognizer_loop:wakeword
                        \* events for that buffer
    requested,          \* the phrase of the last recognizer_loop:hotword
                        \* event not followed by a wakeword event yet
    callers,            \* the external threads inside mute() or unmute():
                        \* the call, the position in it, the value loaded
    hot,                \* create_hot_word_engines: the configured hotwords,
                        \* those not yet iterated, self.hot_word_engines
    ext_pc,             \* the position of an external thread's stop() call
                        \* made while run() is active
    display             \* the display service: its globals default and
                        \* current, and what its backends are doing

vars == <<state, queue, producer_pc, consumer_pc, audio, observed_sleeping,
          events, handled, sleep_during, stop_signaled, ctl_pc, ctl_op,
          reloads, n_put, n_handled, mute_calls, microphone, last_call, calls,
          alive, config, config_core, config_hash, run_pc, ticks, changes,
          last_change, stt_outcome, text, stt_calls, utterances, history,
          word, collab, reported, requested, callers, hot, ext_pc,
          display>>

callVars == <<calls, callers, hot, ext_pc, display>>

wordVars == <<word, collab, reported, requested>>

sttVars == <<stt_outcome, text, stt_calls, utterances>>
threadVars == <<state, queue, producer_pc, consumer_pc, audio,
                observed_sleeping, events, handled, sleep_during,
                stop_signaled, n_put, n_handled, sttVars, history,
                wordVars>>
ctlVars == <<ctl_pc, ctl_op, reloads>>
muteVars == <<mute_calls, microphone, last_call>>
cfgVars == <<config, config_core, config_hash>>
runVars == <<run_pc, ticks, changes, last_change>>

(***************************************************************************)
(* Audio buffers.                                                          *)
(***************************************************************************)
None == [kind |-> "none"]

\* transcribe() has not called the STT backend for the buffer
NoCall == [kind |-> "no call"]

\* `text = None`
NoText == [kind |-> "None"]

\* a Python string, as its sequence of characters
Str(chars) == [kind |-> "str", chars |-> chars]

\* wakeword_recognizer.key_phrase, the default wake phrase
KeyPhrase == "hey mycroft"

\* the phrases recognizer_loop:hotword events select
Hotwords == {"hey jarbas", "thank you"}

\* no hotword event is waiting for its wakeword event
NoPhrase == "(none)"

\* wakeup_recognizer.key_phrase, the default wake-up phrase
WakeUpPhrase == "wake up"

\* the phrases a "hotwords" configuration can have as keys
Phrases == {KeyPhrase, WakeUpPhrase} \cup Hotwords

\* dict.get(key, default)
Get(d, key, default) == IF key \in DOMAIN d THEN d[key] ELSE default

\* the entries of a "hotwords" configuration: with or without "active", with
\* or without "module"
HotwordEntries ==
    LET Active == {<<>>} \cup {("active" :> b) : b \in BOOLEAN}
        Module == {<<>>, ("module" :> "pocketsphinx")}
    IN  {a @@ mo : a \in Active, mo \in Module}

\* config_core.get("hotwords", {})
HotwordConfigs == UNION {[S -> HotwordEntries] : S \in SUBSET Phrases}

\* create_hot_word_engines is entered with this configuration, after
\* `self.hot_word_engines = {}`
HotWordsOf(c) ==
    [hot_words |-> c, todo |-> DOMAIN c, hot_word_engines |-> <<>>,
     pc |-> "for"]

\* create_hot_word_engines that also builds an engine for the two
\* privileged phrases
skipped_OnlyInactive(w, data) == ~Get(data, "active", TRUE)

\* `if word == self.wakeup_recognizer.key_phrase or word ==
\* self.wakeword_recognizer.key_phrase or not data.get("active", True)`
skipped(w, data) ==
    w = WakeUpPhrase \/ w = KeyPhrase \/ ~Get(data, "active", TRUE)

\* one iteration of `for word in hot_words:`, in the order the dict gives;
\* `type = data["module"]` raises KeyError for an entry without the key
HotwordIterate ==
    /\ hot.pc = "for"
    /\ \E w \in hot.todo :
          LET data == hot.hot_words[w]
              rest == hot.todo \ {w}
          IN  IF skipped(w, data)
              THEN hot' = [hot EXCEPT !.todo = rest]
              ELSE IF "module" \notin DOMAIN data
              THEN hot' = [hot EXCEPT !.todo = rest, !.pc = "KeyError"]
              ELSE hot' = [hot EXCEPT
                             !.todo = rest,
                             !.hot_word_engines =
                                 @ @@ (w :> [type |-> data["module"]])]
    /\ UNCHANGED <<threadVars, ctlVars, muteVars, calls, callers, ext_pc,
                   display, alive, cfgVars, runVars>>

\* the for loop is exhausted and create_hot_word_engines returns
HotwordReturn ==
    /\ hot.pc = "for"
    /\ hot.todo = {}
    /\ hot' = [hot EXCEPT !.pc = "returned"]
    /\ UNCHANGED <<threadVars, ctlVars, muteVars, calls, callers, ext_pc,
                   display, alive, cfgVars, runVars>>

HotwordNext == HotwordIterate \/ HotwordReturn

(***************************************************************************)
(* service_display/display.py: the globals `default` and `current`, and    *)
(* the handlers of the show and stop requests, which the message bus runs  *)
(* one at a time.  A backend's show() starts its display and its stop()    *)
(* ends it; either call can raise, and what the backend then displays is   *)
(* not known.                                                              *)
(***************************************************************************)
\* the loaded display backends
Services == {"screen", "web", "mark1"}

\* `None`, for current, default and prefered_service
NoService == "None"

\* how a call of a backend can end
BackendOutcomes == {"ok", "raised"}

\* the globals after load_services_callback found the default backend d
Loaded(d) ==
    [default |-> d, current |-> NoService, displaying |-> {},
     shown |-> NoService, failed |-> FALSE, request |-> <<"none">>]

\* _stop() that forgets the current service without stopping it
stopped_Forgets(d, o, off) == [d EXCEPT !.current = NoService]

\* _stop(): `if current: current.stop(); current = None`.  o is how
\* current.stop() ends and off whether a stop() that raised ended the
\* display.
stopped(d, o, off) ==
    IF d.current = NoService THEN d
    ELSE IF o = "ok"
    THEN [d EXCEPT !.displaying = @ \ {d.current}, !.current = NoService]
    ELSE [d EXCEPT !.displaying = IF off THEN @ \ {d.current} ELSE @,
                   !.failed = TRUE]

\* show(): the prefered service, else the default, else none
service_for(prefered_service, default) ==
    IF prefered_service # NoService THEN prefered_service ELSE default

\* show() after _stop() has returned: `service.show(pic); current = service`.
\* o is how service.show ends and on whether a show() that raised started
\* the display.
shown(d, service, o, on) ==
    IF service = NoService THEN d
    ELSE IF o = "ok"
    THEN [d EXCEPT !.displaying = @ \cup {service}, !.current = service,
                   !.shown = service]
    ELSE [d EXCEPT !.displaying = IF on THEN @ \cup {service} ELSE @,
                   !.shown = service, !.failed = TRUE]

displayFrame == <<threadVars, ctlVars, muteVars, calls, callers, hot, ext_pc,
                  alive, cfgVars, runVars>>

\* the handler of MycroftDisplayServiceStop and mycroft.stop; the request
\* is recorded, a show with its prefered service and the current service at
\* its arrival
DisplayStop ==
    /\ \E o \in BackendOutcomes, off \in BOOLEAN :
          display' = [stopped(display, o, off) EXCEPT !.request = <<"stop">>]
    /\ UNCHANGED displayFrame

\* show(pic, prefered_service): an exception of current.stop() leaves show
\* before the service is chosen
DisplayShow ==
    /\ \E p \in Services \cup {NoService}, o1, o2 \in BackendOutcomes,
          off, on \in BOOLEAN :
          LET d == stopped(display, o1, off)
              after == IF d.current # NoService THEN d
                       ELSE shown(d, service_for(p, d.default), o2, on)
          IN  display' = [after EXCEPT
                             !.request = <<"show", p, display.current>>]
    /\ UNCHANGED displayFrame

DisplayNext == DisplayStop \/ DisplayShow

\* the external threads that call mute() and unmute()
Callers == 1..NumCallers

\* a thread that has not called yet
Idle == [op |-> "none", pc |-> "idle", tmp |-> 0]

\* a call of a collaborator and how it ended
Called(name, result) == [call |-> name, result |-> result]

\* nothing enqueued, handled or emitted yet
NoHistory(recording) ==
    [recording |-> recording, enqueued |-> <<>>, log |-> <<>>, said |-> <<>>,
     listened |-> [outcome |-> NoCall, events |-> <<>>],
     calibration |-> "none"]

\* adjust_for_ambient_noise ended with c
Calibrated(h, c) ==
    IF h.recording THEN [h EXCEPT !.calibration = c] ELSE h

\* the producer's last listen call ended with o and these events followed
Listened(h, o, emitted) ==
    IF h.recording
    THEN [h EXCEPT !.listened = [outcome |-> o, events |-> emitted]]
    ELSE h

\* self.queue.put(a) with an audio buffer
Enqueued(h, a) ==
    IF h.recording THEN [h EXCEPT !.enqueued = Append(@, a)] ELSE h

\* read() is done with buffer a, whose STT call ended with o
Handled(h, a, o) ==
    IF h.recording
    THEN [h EXCEPT !.log = Append(@, [audio |-> a, outcome |-> o])]
    ELSE h

\* recognizer_loop:utterance events with these payloads were emitted
Emitted(h, payloads) ==
    IF h.recording THEN [h EXCEPT !.said = @ \o payloads] ELSE h

Audio(l, r, w) == [kind |-> "audio", len |-> l, rate |-> r, width |-> w]

SampleRates == {2, 3}

SampleWidths == {1, 2}

\* every buffer the microphone can deliver
AudioBuffers ==
    {Audio(l, r, w) : l \in 0..MaxFrameLen, r \in SampleRates, w \in SampleWidths}

\* the buffers the producer captures in the full specification: one shorter
\* than half a second and one of exactly half a second
ListenBuffers == {Audio(1, 2, 2), Audio(2, 2, 2)}

\* AudioConsumer.MIN_AUDIO_SIZE = 0.5, as the fraction MinAudioNum / MinAudioDen
MinAudioNum == 1

MinAudioDen == 2

\* _audio_length(audio) < MIN_AUDIO_SIZE.  The quotient
\* float(len) / (rate * width) of small integers is compared with 0.5, which
\* is exact in binary floating point, so the comparison is the one of the
\* rationals: len / (rate * width) < 1/2  iff  2 * len < rate * width.
TooShort(a) == a.len * MinAudioDen < MinAudioNum * (a.rate * a.width)

(***************************************************************************)
(* The microphone (mycroft.client.speech.mic.MutableMicrophone): a mute    *)
(* flag that mute() sets, unmute() clears and is_muted() reads; the        *)
(* constructor's mute argument is its first value.  As a context manager   *)
(* it opens its audio stream on entry and closes it on exit.               *)
(***************************************************************************)
MutableMicrophone(mute_arg) == [muted |-> mute_arg, stream |-> "closed"]

\* __enter__
MicEnter(m) == [m EXCEPT !.stream = "open"]

\* __exit__
MicExit(m) == [m EXCEPT !.stream = "closed"]

MicMute(m) == [m EXCEPT !.muted = TRUE]

MicUnmute(m) == [m EXCEPT !.muted = FALSE]

MicIsMuted(m) == m.muted

\* `if self.microphone:` -- _load_config always builds one
HasMicrophone(m) == m # None

(***************************************************************************)
(* RecognizerLoop.mute / unmute / force_unmute / is_muted, as functions of *)
(* the loop's fields l = [mute_calls, microphone].                         *)
(***************************************************************************)
mute(l) ==
    LET c == l.mute_calls + 1
    IN  IF HasMicrophone(l.microphone)
        THEN [mute_calls |-> c, microphone |-> MicMute(l.microphone)]
        ELSE [mute_calls |-> c, microphone |-> l.microphone]

\* unmute() that decrements without the floor and the clamp
unmute_NoFloor(l) ==
    LET c == l.mute_calls - 1
    IN  IF c <= 0 /\ HasMicrophone(l.microphone)
        THEN [mute_calls |-> c, microphone |-> MicUnmute(l.microphone)]
        ELSE [mute_calls |-> c, microphone |-> l.microphone]

\* unmute() that unmutes the microphone on every call
unmute_Eager(l) ==
    LET c == IF l.mute_calls > 0 THEN l.mute_calls - 1 ELSE l.mute_calls
    IN  IF HasMicrophone(l.microphone)
        THEN [mute_calls |-> c, microphone |-> MicUnmute(l.microphone)]
        ELSE [mute_calls |-> c, microphone |-> l.microphone]

unmute(l) ==
    LET c == IF l.mute_calls > 0 THEN l.mute_calls - 1 ELSE l.mute_calls
    IN  IF c <= 0 /\ HasMicrophone(l.microphone)
        THEN [mute_calls |-> 0, microphone |-> MicUnmute(l.microphone)]
        ELSE [mute_calls |-> c, microphone |-> l.microphone]

\* force_unmute() that forgets to reset the count before unmute()
force_unmute_NoReset(l) == unmute(l)

force_unmute(l) == unmute([l EXCEPT !.mute_calls = 0])

is_muted(l) ==
    IF HasMicrophone(l.microphone) THEN MicIsMuted(l.microphone) ELSE TRUE

Loop == [mute_calls |-> mute_calls, microphone |-> microphone]

\* the effect of one call on the loop's fields
Call(f, name) ==
    /\ mute_calls' = f.mute_calls
    /\ microphone' = f.microphone
    /\ last_call' = [name |-> name, before |-> mute_calls]

Mute ==
    /\ mute_calls < MaxMuteCalls
    /\ Call(mute(Loop), "mute")
    /\ UNCHANGED <<threadVars, ctlVars, callVars, alive, cfgVars, runVars>>

Unmute ==
    /\ Call(unmute(Loop), "unmute")
    /\ UNCHANGED <<threadVars, ctlVars, callVars, alive, cfgVars, runVars>>

ForceUnmute ==
    /\ Call(force_unmute(Loop), "force_unmute")
    /\ UNCHANGED <<threadVars, ctlVars, callVars, alive, cfgVars, runVars>>

\* the same calls, recorded: a sequence of mute() and unmute() calls made one
\* at a time
MuteRecorded ==
    /\ Len(calls) < MaxCalls
    /\ Call(mute(Loop), "mute")
    /\ calls' = Append(calls, "mute")
    /\ UNCHANGED <<callers, hot, ext_pc, display, threadVars, ctlVars, alive, cfgVars, runVars>>

UnmuteRecorded ==
    /\ Len(calls) < MaxCalls
    /\ Call(unmute(Loop), "unmute")
    /\ calls' = Append(calls, "unmute")
    /\ UNCHANGED <<callers, hot, ext_pc, display, threadVars, ctlVars, alive, cfgVars, runVars>>

(***************************************************************************)
(* mute() and unmute() called by external threads at the same time, as the *)
(* interpreter runs them: `self.mute_calls += 1` and `-= 1` are a load and *)
(* a store, and another thread can run between any two of these steps.     *)
(***************************************************************************)
raceFrame == <<threadVars, ctlVars, calls, alive, cfgVars, runVars, last_call,
               hot, ext_pc, display>>

\* thread t moves to position pc, holding the loaded value tmp
At(t, pc, tmp) == callers' = [callers EXCEPT ![t].pc = pc, ![t].tmp = tmp]

\* an external thread calls mute() or unmute()
CallerStart ==
    \E t \in Callers, op \in {"mute", "unmute"} :
       /\ callers[t].pc = "idle"
       /\ callers' = [callers EXCEPT ![t] =
              [op |-> op, tmp |-> 0,
               pc |-> IF op = "mute" THEN "mute_load" ELSE "unmute_test"]]
       /\ UNCHANGED <<mute_calls, microphone, raceFrame>>

\* `self.mute_calls += 1`: the load
MuteLoad ==
    \E t \in Callers :
       /\ callers[t].pc = "mute_load"
       /\ At(t, "mute_store", mute_calls)
       /\ UNCHANGED <<mute_calls, microphone, raceFrame>>

\* `self.mute_calls += 1`: the store
MuteStore ==
    \E t \in Callers :
       /\ callers[t].pc = "mute_store"
       /\ mute_calls' = callers[t].tmp + 1
       /\ At(t, "mute_mic", 0)
       /\ UNCHANGED <<microphone, raceFrame>>

\* `if self.microphone: self.microphone.mute()`
MuteMic ==
    \E t \in Callers :
       /\ callers[t].pc = "mute_mic"
       /\ microphone' = IF HasMicrophone(microphone)
                        THEN MicMute(microphone) ELSE microphone
       /\ At(t, "returned", 0)
       /\ UNCHANGED <<mute_calls, raceFrame>>

\* `if self.mute_calls > 0:`
UnmuteTest ==
    \E t \in Callers :
       /\ callers[t].pc = "unmute_test"
       /\ At(t, IF mute_calls > 0 THEN "unmute_load" ELSE "unmute_floor", 0)
       /\ UNCHANGED <<mute_calls, microphone, raceFrame>>

\* `self.mute_calls -= 1`: the load
UnmuteLoad ==
    \E t \in Callers :
       /\ callers[t].pc = "unmute_load"
       /\ At(t, "unmute_store", mute_calls)
       /\ UNCHANGED <<mute_calls, microphone, raceFrame>>

\* `self.mute_calls -= 1`: the store
UnmuteStore ==
    \E t \in Callers :
       /\ callers[t].pc = "unmute_store"
       /\ mute_calls' = callers[t].tmp - 1
       /\ At(t, "unmute_floor", 0)
       /\ UNCHANGED <<microphone, raceFrame>>

\* `if self.mute_calls <= 0 and self.microphone:`
UnmuteFloor ==
    \E t \in Callers :
       /\ callers[t].pc = "unmute_floor"
       /\ At(t, IF mute_calls <= 0 /\ HasMicrophone(microphone)
                THEN "unmute_mic" ELSE "returned", 0)
       /\ UNCHANGED <<mute_calls, microphone, raceFrame>>

\* `self.microphone.unmute()`
UnmuteMic ==
    \E t \in Callers :
       /\ callers[t].pc = "unmute_mic"
       /\ microphone' = MicUnmute(microphone)
       /\ At(t, "unmute_reset", 0)
       /\ UNCHANGED <<mute_calls, raceFrame>>

\* `self.mute_calls = 0`
UnmuteReset ==
    \E t \in Callers :
       /\ callers[t].pc = "unmute_reset"
       /\ mute_calls' = 0
       /\ At(t, "returned", 0)
       /\ UNCHANGED <<microphone, raceFrame>>

RaceNext ==
    \/ CallerStart
    \/ MuteLoad
    \/ MuteStore
    \/ MuteMic
    \/ UnmuteTest
    \/ UnmuteLoad
    \/ UnmuteStore
    \/ UnmuteFloor
    \/ UnmuteMic
    \/ UnmuteReset

(***************************************************************************)
(* AudioProducer.run                                                       *)
(***************************************************************************)
producerVars == <<audio, observed_sleeping, events, handled, sleep_during,
                  stop_signaled, consumer_pc, state, n_handled, sttVars,
                  wordVars>>

\* a `with` block that is left without __exit__ when an exception escapes
leave_OnlyOnReturn(m, raised) == IF raised THEN m ELSE MicExit(m)

\* `with self.mic as source:` is left, by the end of the loop or by an
\* exception: __exit__ runs either way
leave(m, raised) == MicExit(m)

\* how adjust_for_ambient_noise can end
CalibrationOutcomes == {"returned", "raised"}

\* AudioProducer.run without the try around the calibration: the exception
\* ends the thread
after_calibration_Fatal(c) == IF c = "raised" THEN "done" ELSE "loop"

\* `except Exception as e: print e`, then the while loop
after_calibration(c) == "loop"

\* `with self.mic as source:` and adjust_for_ambient_noise, whose exception
\* is printed and dropped
ProducerCalibrate ==
    /\ producer_pc = "calibrate"
    /\ microphone' = MicEnter(microphone)
    /\ \E c \in CalibrationOutcomes :
          /\ producer_pc' = after_calibration(c)
          /\ history' = Calibrated(history, c)
    /\ UNCHANGED <<producerVars, queue, n_put, ctlVars, mute_calls, last_call,
                   callVars, alive, cfgVars, runVars>>

\* a producer loop that never reads the flag
continues_Always(s) == TRUE

\* `while self.state.running:`
continues(s) == s.running

ProducerLoop ==
    /\ producer_pc = "loop"
    /\ producer_pc' = IF continues(state) THEN "listen" ELSE "done"
    /\ alive' = IF continues(state) THEN alive
                ELSE [alive EXCEPT !.producer = @ - 1]
    /\ microphone' = IF continues(state) THEN microphone
                     ELSE leave(microphone, FALSE)
    /\ UNCHANGED <<producerVars, queue, n_put, ctlVars, mute_calls, last_call,
                   callVars, cfgVars, runVars, history>>

\* the IOErrors the audio stack raises
IOErrors == {"input overflowed", "device unavailable"}

\* what a listen call can end with: a captured buffer, nothing (None) for a
\* call that recognizer.stop() interrupted, an IOError, or any other
\* exception, such as one of the wake word detector listen() runs
ListenOutcomes ==
    {[kind |-> "audio", buffer |-> a] : a \in ListenBuffers}
        \cup {[kind |-> "IOError", error |-> e] : e \in IOErrors}
        \cup {[kind |-> "Exception"]}
        \cup (IF stop_signaled THEN {[kind |-> "none"]} ELSE {})

\* `except IOError, ex:` is the only handler around listen
uncaught(kind) == kind = "Exception"

\* AudioProducer.run that drops the IOError without an event
on_ioerror_Silent(ex) == <<>>

\* `self.emitter.emit("recognizer_loop:ioerror", ex)`
on_ioerror(ex) == <<[name |-> "recognizer_loop:ioerror", error |-> ex]>>

\* audio = self.recognizer.listen(...); self.queue.put(audio), or the
\* IOError handler, which emits recognizer_loop:ioerror; any other exception
\* leaves run() and ends the thread
ProducerListen ==
    /\ producer_pc = "listen"
    /\ \E o \in ListenOutcomes :
          /\ CASE o.kind = "audio" ->
                    /\ n_put < MaxBuffers
                    /\ queue' = Append(queue, o.buffer)
                    /\ n_put' = n_put + 1
                    /\ history' = Listened(Enqueued(history, o.buffer), o, <<>>)
              [] o.kind = "none" ->
                    /\ queue' = Append(queue, None)
                    /\ n_put' = n_put
                    /\ history' = Listened(history, o, <<>>)
              [] o.kind = "IOError" ->
                    /\ history' = Listened(history, o, on_ioerror(o.error))
                    /\ UNCHANGED <<queue, n_put>>
              [] OTHER ->
                    /\ history' = Listened(history, o, <<>>)
                    /\ UNCHANGED <<queue, n_put>>
          /\ producer_pc' = IF uncaught(o.kind) THEN "done" ELSE "loop"
          /\ alive' = IF uncaught(o.kind)
                      THEN [alive EXCEPT !.producer = @ - 1] ELSE alive
          /\ microphone' = IF uncaught(o.kind)
                           THEN leave(microphone, TRUE) ELSE microphone
    /\ UNCHANGED <<producerVars, ctlVars, mute_calls, last_call, callVars,
                   cfgVars, runVars>>

ProducerNext == ProducerCalibrate \/ ProducerLoop \/ ProducerListen

(***************************************************************************)
(* AudioConsumer.run / read / wake_up / process / transcribe               *)
(***************************************************************************)
consumerFrame == <<producer_pc, stop_signaled, n_put, ctlVars, muteVars, callVars,
                   cfgVars, runVars>>

\* `while self.state.running:`
ConsumerLoop ==
    /\ consumer_pc = "loop"
    /\ consumer_pc' = IF state.running THEN "get" ELSE "done"
    /\ alive' = IF state.running THEN alive
                ELSE [alive EXCEPT !.consumer = @ - 1]
    /\ UNCHANGED <<state, queue, audio, observed_sleeping, events, handled,
                   sleep_during, n_handled, sttVars, history, wordVars,
                   consumerFrame>>

\* read() that takes the transcription path whatever state.sleeping is
dispatch_IgnoreSleeping(sleeping) == "process"

\* `if self.state.sleeping: self.wake_up(audio) else: self.process(audio)`
dispatch(sleeping) == IF sleeping THEN "wake_up" ELSE "process"

\* read() that handles a None like a buffer
sentinel_Never(a) == FALSE

\* `if audio is None: return`
sentinel(a) == a = None

\* audio = self.queue.get(), blocking while the queue is empty; a None is
\* dropped, any other buffer is dispatched on state.sleeping
ConsumerGet ==
    /\ consumer_pc = "get"
    /\ queue # <<>>
    /\ queue' = Tail(queue)
    /\ audio' = Head(queue)
    /\ events' = <<>>
    /\ sleep_during' = FALSE
    /\ stt_outcome' = NoCall
    /\ text' = NoText
    /\ stt_calls' = 0
    /\ utterances' = <<>>
    /\ collab' = <<>>
    /\ reported' = <<>>
    /\ IF sentinel(Head(queue))
       THEN /\ consumer_pc' = "loop"
            /\ handled' = "sentinel"
            /\ UNCHANGED observed_sleeping
       ELSE /\ consumer_pc' = dispatch(state.sleeping)
            /\ handled' = "handling"
            /\ observed_sleeping' = state.sleeping
    /\ UNCHANGED <<state, n_handled, alive, history, word, requested,
                   consumerFrame>>

\* read() whose try statement lets the exception leave run()
caught_Escapes == "done"

\* read() that answers an exception with another STT call for the buffer
caught_Retry == "stt"

\* `except Exception as e: print e`: read() returns to the loop of run()
caught == "loop"

\* what wakeup_recognizer.found_wake_word can end with
DetectorOutcomes == {"found", "missed", "raised"}

\* wake_up() that leaves state.sleeping as it is
wake_NoClear(s) == s

\* wake_up() that clears state.running together with state.sleeping
wake_AndStop(s) == [s EXCEPT !.sleeping = FALSE, !.running = FALSE]

\* `self.state.sleeping = False`
wake(s) == [s EXCEPT !.sleeping = FALSE]

\* wake_up() that takes every answer of the detector for a detection
detected_Always(d) == TRUE

\* `if self.wakeup_recognizer.found_wake_word(audio.frame_data):`
detected(d) == d = "found"

\* wake_up() and process() that do not refresh the session
touch_Never == <<>>

\* `SessionManager.touch()` that returns
touch == <<Called("SessionManager.touch", "ok")>>

\* wake_up up to `self.state.sleeping = False`; an exception of the detector
\* or of SessionManager.touch() is caught by read()
ConsumerWakeUp ==
    /\ consumer_pc = "wake_up"
    /\ \E d \in DetectorOutcomes :
          IF d = "raised"
          THEN /\ consumer_pc' = caught
               /\ handled' = "raised"
               /\ n_handled' = n_handled + 1
               /\ history' = Handled(history, audio, NoCall)
               /\ collab' = Append(collab, Called("found_wake_word", d))
               /\ UNCHANGED state
          ELSE IF detected(d)
          THEN /\ state' = wake(state)
               /\ consumer_pc' = "wake_speak"
               /\ collab' = collab \o <<Called("found_wake_word", d)>> \o touch
               /\ UNCHANGED <<handled, n_handled, history>>
          ELSE /\ consumer_pc' = "loop"
               /\ handled' = "asleep_missed"
               /\ n_handled' = n_handled + 1
               /\ history' = Handled(history, audio, NoCall)
               /\ collab' = Append(collab, Called("found_wake_word", d))
               /\ UNCHANGED state
    /\ UNCHANGED <<queue, audio, observed_sleeping, events, sleep_during,
                   alive, sttVars, word, reported, requested, consumerFrame>>

\* the rest of wake_up: mycroft.dialog.get, which may raise, then
\* self.__speak("i am awake") and the metric
ConsumerWakeSpeak ==
    /\ consumer_pc = "wake_speak"
    /\ \E found_dialog \in BOOLEAN :
          IF found_dialog
          THEN /\ events' = Append(events, "speak")
               /\ handled' = "woken"
               /\ consumer_pc' = "loop"
          ELSE /\ events' = events
               /\ handled' = "raised"
               /\ consumer_pc' = caught
    /\ n_handled' = n_handled + 1
    /\ history' = Handled(history, audio, NoCall)
    /\ UNCHANGED <<state, queue, audio, observed_sleeping, sleep_during,
                   alive, sttVars, wordVars, consumerFrame>>

\* process() that transcribes every buffer
screen_NoMinimum(a) == "stt"

\* process() that also drops a buffer of exactly MIN_AUDIO_SIZE
screen_Strict(a) ==
    IF a.len * MinAudioDen <= MinAudioNum * (a.rate * a.width)
    THEN "short" ELSE "stt"

\* `if self._audio_length(audio) < self.MIN_AUDIO_SIZE: ... else:
\* self.transcribe(audio)`
screen(a) == IF TooShort(a) THEN "short" ELSE "stt"

\* process() whose wakeword event always carries the default phrase
payload_Default(w) == KeyPhrase

\* `payload = {'utterance': self.word, ...}`
payload(w) == w

\* process up to the call of the STT backend: SessionManager.touch(), which
\* may raise, the recognizer_loop:wakeword event carrying self.word and the
\* length test; for a short buffer process ends here, with
\* `self.word = self.wakeword_recognizer.key_phrase`
ConsumerProcess ==
    /\ consumer_pc = "process"
    /\ \E touched \in BOOLEAN :
          IF ~touched
          THEN /\ consumer_pc' = caught
               /\ handled' = "raised"
               /\ n_handled' = n_handled + 1
               /\ history' = Handled(history, audio, NoCall)
               /\ collab' = Append(collab,
                                   Called("SessionManager.touch", "raised"))
               /\ UNCHANGED <<events, word, reported, requested>>
          ELSE /\ events' = Append(events, "recognizer_loop:wakeword")
               /\ collab' = collab \o touch
               /\ reported' = Append(reported, payload(word))
               /\ requested' = NoPhrase
               /\ IF screen(audio) = "short"
                  THEN /\ consumer_pc' = "loop"
                       /\ handled' = "too_short"
                       /\ n_handled' = n_handled + 1
                       /\ history' = Handled(history, audio, NoCall)
                       /\ word' = KeyPhrase
                  ELSE /\ consumer_pc' = "stt"
                       /\ UNCHANGED <<handled, n_handled, history, word>>
    /\ UNCHANGED <<state, queue, audio, observed_sleeping, sleep_during,
                   alive, sttVars, consumerFrame>>

\* the upper-case letters of the texts below, with their lower-case forms
CasePairs == {<<"A", "a">>, <<"B", "b">>}

\* the characters str.strip() removes
Whitespace == {" ", "\n"}

\* str.lower() on one character
LowerChar(c) ==
    IF \E p \in CasePairs : p[1] = c
    THEN (CHOOSE p \in CasePairs : p[1] = c)[2]
    ELSE c

\* str.lower()
Lower(chars) == [i \in DOMAIN chars |-> LowerChar(chars[i])]

RECURSIVE LStrip(_)
LStrip(chars) ==
    IF chars # <<>> /\ Head(chars) \in Whitespace
    THEN LStrip(Tail(chars)) ELSE chars

RECURSIVE RStrip(_)
RStrip(chars) ==
    IF chars # <<>> /\ chars[Len(chars)] \in Whitespace
    THEN RStrip(SubSeq(chars, 1, Len(chars) - 1)) ELSE chars

\* str.strip()
Strip(chars) == RStrip(LStrip(chars))

\* transcribe() that lowers the text and does not strip it
normalize_NoStrip(raw) == Lower(raw)

\* `self.stt.execute(audio).lower().strip()`
normalize(raw) == Strip(Lower(raw))

\* the texts the STT backend returns here
RawTexts ==
    {<<>>, <<" ">>, <<"a">>, <<"A">>, <<" ", "a">>, <<"A", "\n">>,
     <<"a", " ", "B">>}

\* the `response` of an HTTPError: a response with its status code, or None
Responses == {[status_code |-> 401], [status_code |-> 500], None}

\* what self.stt.execute(audio) can end with: a text, or one of the
\* exceptions transcribe() tells apart
SttOutcomes ==
    {[kind |-> "returned", raw |-> r] : r \in RawTexts}
        \cup {[kind |-> "HTTPError", response |-> r] : r \in Responses}
        \cup {[kind |-> k] : k \in {"RequestError", "ConnectionError",
                                    "Exception"}}

\* "pair my device"
PairMyDevice ==
    Str(<<"p", "a", "i", "r", " ", "m", "y", " ",
          "d", "e", "v", "i", "c", "e">>)

\* `if text:`
Truthy(t) == t # NoText /\ t.chars # <<>>

\* transcribe() that sets no text for the status 401
httperror_NoPairing(response) ==
    [raised |-> response = None, text |-> NoText, events |-> <<>>]

\* `except HTTPError as e: if e.response.status_code == 401: text = ...`;
\* reading status_code of a missing response raises out of transcribe()
httperror(response) ==
    [raised |-> response = None,
     text |-> IF response # None /\ response.status_code = 401
              THEN PairMyDevice ELSE NoText,
     events |-> <<>>]

\* the try statement of transcribe(): the value of `text` after it, the
\* events its handlers emit, and whether an exception leaves transcribe()
stt_try(o) ==
    CASE o.kind = "returned" ->
            [raised |-> FALSE, text |-> Str(normalize(o.raw)),
             events |-> <<>>]
      [] o.kind = "RequestError" ->
            [raised |-> FALSE, text |-> NoText, events |-> <<>>]
      [] o.kind = "ConnectionError" ->
            [raised |-> FALSE, text |-> NoText,
             events |-> <<"recognizer_loop:no_internet">>]
      [] o.kind = "HTTPError" -> httperror(o.response)
      [] OTHER ->
            [raised |-> FALSE, text |-> NoText,
             events |-> <<"speak", "recognizer_loop:speak">>]

\* transcribe() that emits the utterance event whatever `text` is
emit_Always(t) == TRUE

\* `if text:` with `emit` left at its default
emit(t) == Truthy(t)

\* transcribe(audio): the try statement, then the utterance event for a
\* truthy text
transcribe(o) ==
    LET r == stt_try(o)
    IN  IF r.raised
        THEN [raised |-> TRUE, text |-> r.text, events |-> r.events,
              utterances |-> <<>>]
        ELSE IF emit(r.text)
        THEN [raised |-> FALSE, text |-> r.text,
              events |-> Append(r.events, "recognizer_loop:utterance"),
              utterances |-> << <<r.text>> >>]
        ELSE [raised |-> FALSE, text |-> r.text, events |-> r.events,
              utterances |-> <<>>]

\* the STT call returns or raises and transcribe() runs to its end, after
\* which process() resets self.word to the key phrase; an exception that
\* leaves transcribe() skips that assignment and is caught by read()
ConsumerTranscribe ==
    /\ consumer_pc = "stt"
    /\ \E o \in SttOutcomes :
          LET r == transcribe(o)
          IN  /\ stt_outcome' = o
              /\ text' = r.text
              /\ events' = events \o r.events
              /\ utterances' = utterances \o r.utterances
              /\ handled' = IF r.raised THEN "raised" ELSE "transcribed"
              /\ consumer_pc' = IF r.raised THEN caught ELSE "loop"
              /\ history' = Emitted(Handled(history, audio, o), r.utterances)
              /\ collab' = Append(collab, Called("stt.execute", o.kind))
              /\ word' = IF r.raised THEN word ELSE KeyPhrase
    /\ stt_calls' = stt_calls + 1
    /\ n_handled' = n_handled + 1
    /\ UNCHANGED <<state, queue, audio, observed_sleeping, sleep_during,
                   alive, reported, requested, consumerFrame>>

ConsumerNext ==
    \/ ConsumerLoop
    \/ ConsumerGet
    \/ ConsumerWakeUp
    \/ ConsumerWakeSpeak
    \/ ConsumerProcess
    \/ ConsumerTranscribe

(***************************************************************************)
(* RecognizerLoop: construction, start_async, stop, reload, sleep, awaken  *)
(***************************************************************************)
RecognizerLoopState == [running |-> FALSE, sleeping |-> FALSE]

\* the contents the configuration can have
Configs == 0..MaxConfig

\* the hash takes HashValues values (2^64 in CPython, scaled down)
HashValues == 2

\* hash(str(config)): many contents, few hash values
Hash(c) == c % HashValues

\* RecognizerLoop.__init__: mute_calls = 0, then _load_config
Constructed ==
    /\ state = RecognizerLoopState
    /\ queue = <<>>
    /\ producer_pc = "unstarted"
    /\ consumer_pc = "unstarted"
    /\ audio = None
    /\ observed_sleeping = FALSE
    /\ events = <<>>
    /\ handled = "none"
    /\ sleep_during = FALSE
    /\ stop_signaled = FALSE
    /\ ctl_pc = "constructed"
    /\ ctl_op = "none"
    /\ reloads = 0
    /\ n_put = 0
    /\ n_handled = 0
    /\ mute_calls = 0
    /\ microphone = MutableMicrophone(FALSE)
    /\ last_call = [name |-> "none", before |-> 0]
    /\ calls = <<>>
    /\ callers = [t \in Callers |-> Idle]
    /\ ext_pc = "idle"
    /\ hot \in {HotWordsOf(c) : c \in HotwordConfigs}
    /\ display \in {Loaded(d) : d \in Services \cup {NoService}}
    /\ alive = [producer |-> 0, consumer |-> 0]
    /\ config = 0
    /\ config_core = config
    /\ config_hash = Hash(config)
    /\ ticks = 0
    /\ changes = 0
    /\ last_change = [at |-> "none", tick |-> 0]
    /\ stt_outcome = NoCall
    /\ text = NoText
    /\ stt_calls = 0
    /\ utterances = <<>>
    /\ history \in {NoHistory(recording) : recording \in BOOLEAN}
    /\ word = KeyPhrase
    /\ collab = <<>>
    /\ reported = <<>>
    /\ requested = NoPhrase

\* the loop is driven by calls of start_async, stop and reload
Init ==
    /\ Constructed
    /\ run_pc = "none"
    /\ ~history.recording
    /\ hot = HotWordsOf(<<>>)
    /\ display = Loaded(NoService)

\* start_async: running = True, a new Queue, a new producer and a new
\* consumer, both started
start_async ==
    /\ state' = [state EXCEPT !.running = TRUE]
    /\ queue' = <<>>
    /\ producer_pc' = "calibrate"
    /\ consumer_pc' = "loop"
    /\ audio' = None
    /\ observed_sleeping' = FALSE
    /\ events' = <<>>
    /\ handled' = "none"
    /\ sleep_during' = FALSE
    /\ n_put' = 0
    /\ n_handled' = 0
    /\ stt_outcome' = NoCall
    /\ text' = NoText
    /\ stt_calls' = 0
    /\ utterances' = <<>>
    /\ word' = KeyPhrase
    /\ collab' = <<>>
    /\ reported' = <<>>
    /\ requested' = NoPhrase
    /\ alive' = [producer |-> alive.producer + 1,
                 consumer |-> alive.consumer + 1]
    /\ ctl_pc' = "running"
    /\ ctl_op' = "none"
    /\ UNCHANGED <<stop_signaled, reloads, muteVars, callVars, cfgVars,
                   history>>

\* start_async called directly, or by reload(), which then returns to its
\* caller
StartAsync ==
    /\ ctl_pc \in {"constructed", "start_async"}
    /\ run_pc \in {"none", "reloading"}
    /\ start_async
    /\ run_pc' = IF run_pc = "reloading" THEN "loop" ELSE run_pc
    /\ UNCHANGED <<ticks, changes, last_change>>

\* stop() up to the joins: running = False and producer.stop(), which
\* clears running again and calls recognizer.stop()
StopCall(op) ==
    /\ ctl_pc = "running"
    /\ state' = [state EXCEPT !.running = FALSE]
    /\ stop_signaled' = TRUE
    /\ ctl_pc' = "join_producer"
    /\ ctl_op' = op
    /\ UNCHANGED <<queue, producer_pc, consumer_pc, audio, observed_sleeping,
                   events, handled, sleep_during, n_put, n_handled, muteVars,
                   callVars, alive, cfgVars, sttVars, history, wordVars>>

Stop == run_pc = "none" /\ StopCall("stop") /\ UNCHANGED <<reloads, runVars>>

\* stop() that does not wait for the producer
StopJoinProducer_NoWait ==
    /\ ctl_pc = "join_producer"
    /\ ctl_pc' = "join_consumer"
    /\ UNCHANGED <<threadVars, ctl_op, reloads, muteVars, callVars, alive,
                   cfgVars, runVars>>

\* self.producer.join()
StopJoinProducer ==
    /\ ctl_pc = "join_producer"
    /\ producer_pc = "done"
    /\ ctl_pc' = "join_consumer"
    /\ UNCHANGED <<threadVars, ctl_op, reloads, muteVars, callVars, alive,
                   cfgVars, runVars>>

\* stop() that returns without waiting for the consumer
StopJoinConsumer_NoWait ==
    /\ ctl_pc = "join_consumer"
    /\ ctl_pc' = IF ctl_op = "reload" THEN "load_config" ELSE "stopped"
    /\ UNCHANGED <<threadVars, ctl_op, reloads, muteVars, callVars, alive,
                   cfgVars, runVars>>

\* self.consumer.join(), after which stop() returns
StopJoinConsumer ==
    /\ ctl_pc = "join_consumer"
    /\ consumer_pc = "done"
    /\ ctl_pc' = IF ctl_op = "reload" THEN "load_config" ELSE "stopped"
    /\ UNCHANGED <<threadVars, ctl_op, reloads, muteVars, callVars, alive,
                   cfgVars, runVars>>

\* reload(): self.stop() ...
Reload ==
    /\ run_pc = "none"
    /\ reloads < MaxReloads
    /\ reloads' = reloads + 1
    /\ StopCall("reload")
    /\ UNCHANGED runVars

\* _load_config() that always builds an unmuted microphone
load_config_Unmuted(count) ==
    [microphone |-> MutableMicrophone(FALSE), state |-> RecognizerLoopState]

\* _load_config(): a new microphone, muted iff mute_calls > 0, and a new
\* RecognizerLoopState
load_config(count) ==
    [microphone |-> MutableMicrophone(count > 0), state |-> RecognizerLoopState]

\* ... self._load_config() (a new recognizer too), then start_async
ReloadLoadConfig ==
    /\ ctl_pc = "load_config"
    /\ microphone' = load_config(mute_calls).microphone
    /\ state' = load_config(mute_calls).state
    /\ stop_signaled' = FALSE
    /\ config_core' = config
    /\ config_hash' = Hash(config)
    /\ ctl_pc' = "start_async"
    /\ UNCHANGED <<queue, producer_pc, consumer_pc, audio, observed_sleeping,
                   events, handled, sleep_during, n_put, n_handled, ctl_op,
                   reloads, mute_calls, last_call, callVars, alive, config,
                   runVars, sttVars, history, wordVars>>

\* sleep(): self.state.sleeping = True
Sleep ==
    /\ state' = [state EXCEPT !.sleeping = TRUE]
    /\ sleep_during' = (sleep_during \/ consumer_pc = "wake_speak")
    /\ UNCHANGED <<queue, producer_pc, consumer_pc, audio, observed_sleeping,
                   events, handled, stop_signaled, n_put, n_handled, ctlVars,
                   muteVars, callVars, alive, cfgVars, runVars, sttVars,
                   history, wordVars>>

\* awaken(): self.state.sleeping = False
Awaken ==
    /\ state' = [state EXCEPT !.sleeping = FALSE]
    /\ UNCHANGED <<queue, producer_pc, consumer_pc, audio, observed_sleeping,
                   events, handled, sleep_during, stop_signaled, n_put,
                   n_handled, ctlVars, muteVars, callVars, alive, cfgVars,
                   runVars, sttVars, history, wordVars>>

OrchestratorNext ==
    \/ StartAsync
    \/ Stop
    \/ Reload
    \/ StopJoinProducer
    \/ StopJoinConsumer
    \/ ReloadLoadConfig

Next ==
    \/ ProducerNext
    \/ ConsumerNext
    \/ OrchestratorNext
    \/ Sleep
    \/ Awaken
    \/ Mute
    \/ Unmute
    \/ ForceUnmute

Spec == Init /\ [][Next]_vars

(***************************************************************************)
(* A sequence of mute() and unmute() calls made one at a time on a new     *)
(* RecognizerLoop.                                                         *)
(***************************************************************************)
MuteNext == MuteRecorded \/ UnmuteRecorded

MuteSpec == Init /\ [][MuteNext]_vars

\* mute() and unmute() called at the same time on a new RecognizerLoop, one
\* call by each external thread
RaceSpec == Init /\ [][RaceNext]_vars

\* create_hot_word_engines on any "hotwords" configuration
HotwordInit ==
    /\ Constructed
    /\ run_pc = "none"
    /\ ~history.recording
    /\ display = Loaded(NoService)

\* the display service after load_services_callback, with any default
\* backend or none, handling show and stop requests
DisplayInit ==
    /\ Constructed
    /\ run_pc = "none"
    /\ ~history.recording
    /\ hot = HotWordsOf(<<>>)

DisplaySpec == DisplayInit /\ [][DisplayNext]_vars

HotwordSpec == HotwordInit /\ [][HotwordNext]_vars

(***************************************************************************)
(* The consumer alone, on one buffer of any length, rate and width: the    *)
(* loop is started, the producer is inside listen and has enqueued the     *)
(* buffer.                                                                 *)
(***************************************************************************)
ProcessInit ==
    /\ state \in {[running |-> TRUE, sleeping |-> b] : b \in BOOLEAN}
    /\ queue \in {<<a>> : a \in AudioBuffers}
    /\ producer_pc = "listen"
    /\ consumer_pc = "get"
    /\ audio = None
    /\ observed_sleeping = FALSE
    /\ events = <<>>
    /\ handled = "none"
    /\ sleep_during = FALSE
    /\ stop_signaled = FALSE
    /\ ctl_pc = "running"
    /\ ctl_op = "none"
    /\ reloads = 0
    /\ n_put = 1
    /\ n_handled = 0
    /\ mute_calls = 0
    /\ microphone = MicEnter(MutableMicrophone(FALSE))
    /\ last_call = [name |-> "none", before |-> 0]
    /\ calls = <<>>
    /\ callers = [t \in Callers |-> Idle]
    /\ ext_pc = "idle"
    /\ hot = HotWordsOf(<<>>)
    /\ display = Loaded(NoService)
    /\ alive = [producer |-> 1, consumer |-> 1]
    /\ config = 0
    /\ config_core = config
    /\ config_hash = Hash(config)
    /\ run_pc = "none"
    /\ ticks = 0
    /\ changes = 0
    /\ last_change = [at |-> "none", tick |-> 0]
    /\ stt_outcome = NoCall
    /\ text = NoText
    /\ stt_calls = 0
    /\ utterances = <<>>
    /\ history = NoHistory(FALSE)
    /\ word = KeyPhrase
    /\ collab = <<>>
    /\ reported = <<>>
    /\ requested = NoPhrase

ProcessSpec == ProcessInit /\ [][ConsumerNext]_vars

(***************************************************************************)
(* The two threads of a loop that stays awake and running, with the        *)
(* history of their buffers recorded.                                      *)
(***************************************************************************)
OrderInit ==
    /\ Constructed
    /\ run_pc = "none"
    /\ history.recording
    /\ hot = HotWordsOf(<<>>)
    /\ display = Loaded(NoService)

OrderNext ==
    \/ StartAsync
    \/ ProducerNext
    \/ ConsumerLoop
    \/ ConsumerGet
    \/ ConsumerProcess
    \/ ConsumerTranscribe

OrderSpec == OrderInit /\ [][OrderNext]_vars

(***************************************************************************)
(* The two threads of an awake loop, with recognizer_loop:hotword events   *)
(* delivered to the consumer's set_word by the thread that emits them.     *)
(***************************************************************************)
\* the payloads of recognizer_loop:hotword events: with or without the
\* "hotword" key
HotwordEvents ==
    {[hotword |-> p] : p \in Hotwords} \cup {[engine |-> "snowboy"]}

\* `event.get("hotword", self.wakeword_recognizer.key_phrase)`
set_word(event) ==
    IF "hotword" \in DOMAIN event THEN event.hotword ELSE KeyPhrase

\* a recognizer_loop:hotword event is emitted: self.word = ...
SetWord ==
    /\ ctl_pc = "running"
    /\ \E event \in HotwordEvents :
          /\ word' = set_word(event)
          /\ requested' = IF "hotword" \in DOMAIN event
                          THEN event.hotword ELSE NoPhrase
    /\ UNCHANGED <<state, queue, producer_pc, consumer_pc, audio,
                   observed_sleeping, events, handled, sleep_during,
                   stop_signaled, n_put, n_handled, sttVars, history, collab,
                   reported, ctlVars, muteVars, callVars, alive, cfgVars,
                   runVars>>

WordNext ==
    \/ StartAsync
    \/ Stop
    \/ StopJoinProducer
    \/ StopJoinConsumer
    \/ ProducerNext
    \/ ConsumerLoop
    \/ ConsumerGet
    \/ ConsumerProcess
    \/ ConsumerTranscribe
    \/ SetWord

WordSpec == Init /\ [][WordNext]_vars

(***************************************************************************)
(* RecognizerLoop.run: start_async, then every second compare the stored   *)
(* hash with the hash of the configuration and reload on a difference.     *)
(***************************************************************************)
\* the configuration file is rewritten with another content
ConfigChange ==
    /\ changes < MaxChanges
    /\ \E c \in Configs \ {config} : config' = c
    /\ changes' = changes + 1
    /\ last_change' = [at |-> run_pc, tick |-> ticks]
    /\ UNCHANGED <<threadVars, ctlVars, muteVars, callVars, alive, config_core,
                   config_hash, run_pc, ticks>>

\* run(): self.start_async()
RunStart ==
    /\ run_pc = "start"
    /\ ctl_pc = "constructed"
    /\ start_async
    /\ run_pc' = "loop"
    /\ UNCHANGED <<ticks, changes, last_change>>

\* run() that reloads on every tick
changed_Always(stored, current) == TRUE

\* `self._config_hash != hash(str(ConfigurationManager().get()))`
changed(stored, current) == stored # Hash(current)

\* one turn of `while self.state.running:`: time.sleep(1), the comparison
\* and, on a difference, reload(), which begins with stop()
RunTick ==
    /\ run_pc = "loop"
    /\ ctl_pc = "running"
    /\ ticks < MaxTicks
    /\ IF ~state.running
       THEN /\ run_pc' = "exited"
            /\ UNCHANGED <<threadVars, ctlVars, ticks, alive>>
       ELSE /\ ticks' = ticks + 1
            /\ IF changed(config_hash, config)
               THEN /\ StopCall("reload")
                    /\ reloads' = reloads + 1
                    /\ run_pc' = "reloading"
               ELSE UNCHANGED <<threadVars, ctlVars, run_pc, alive>>
    /\ UNCHANGED <<muteVars, callVars, cfgVars, changes, last_change>>

\* a KeyboardInterrupt arrives while run() sleeps between two ticks:
\* `except KeyboardInterrupt as e: LOG.error(e); self.stop()`
RunInterrupt ==
    /\ run_pc = "loop"
    /\ ctl_pc = "running"
    /\ state.running
    /\ StopCall("interrupt")
    /\ run_pc' = "interrupted"
    /\ UNCHANGED <<reloads, ticks, changes, last_change>>

\* `raise  # Re-raise KeyboardInterrupt`, once stop() has returned
RunReraise ==
    /\ run_pc = "interrupted"
    /\ ctl_pc = "stopped"
    /\ run_pc' = "raised"
    /\ UNCHANGED <<threadVars, ctlVars, muteVars, callVars, alive, cfgVars,
                   ticks, changes, last_change>>

RunInit ==
    /\ Constructed
    /\ run_pc = "start"
    /\ ~history.recording
    /\ hot = HotWordsOf(<<>>)
    /\ display = Loaded(NoService)

RunNext ==
    \/ RunStart
    \/ RunTick
    \/ ConfigChange
    \/ StopJoinProducer
    \/ StopJoinConsumer
    \/ ReloadLoadConfig
    \/ StartAsync
    \/ ProducerNext
    \/ ConsumerLoop
    \/ ConsumerGet
    \/ ConsumerProcess
    \/ ConsumerTranscribe

RunSpec == RunInit /\ [][RunNext]_vars

(***************************************************************************)
(* stop() called by an external thread while run() is in its loop or in a  *)
(* reload.  Each join waits for the thread that self.producer or           *)
(* self.consumer names when the statement is reached.                      *)
(***************************************************************************)
extFrame == <<queue, producer_pc, consumer_pc, audio, observed_sleeping,
              events, handled, sleep_during, n_put, n_handled, sttVars,
              history, wordVars, ctlVars, muteVars, calls, callers, hot,
              display, alive, cfgVars, runVars>>

\* `self.state.running = False; self.producer.stop()`.  Once a reload's
\* _load_config has run, self.producer still names the old producer, whose
\* recognizer is not the one the next producer is given.
ExternalStop ==
    /\ ext_pc = "idle"
    /\ run_pc \in {"loop", "reloading"}
    /\ state' = [state EXCEPT !.running = FALSE]
    /\ stop_signaled' = IF ctl_pc = "start_async" THEN stop_signaled ELSE TRUE
    /\ ext_pc' = "join_producer"
    /\ UNCHANGED extFrame

\* `self.producer.join()`
ExternalJoinProducer ==
    /\ ext_pc = "join_producer"
    /\ producer_pc = "done"
    /\ ext_pc' = "join_consumer"
    /\ UNCHANGED <<state, stop_signaled, extFrame>>

\* `self.consumer.join()`, after which stop() returns
ExternalJoinConsumer ==
    /\ ext_pc = "join_consumer"
    /\ consumer_pc = "done"
    /\ ext_pc' = "returned"
    /\ UNCHANGED <<state, stop_signaled, extFrame>>

ExternalNext ==
    \/ RunNext
    \/ ExternalStop
    \/ ExternalJoinProducer
    \/ ExternalJoinConsumer

ExternalSpec == RunInit /\ [][ExternalNext]_vars

\* run() with an unchanged configuration, interrupted from the keyboard
InterruptNext ==
    \/ RunStart
    \/ RunInterrupt
    \/ RunReraise
    \/ StopJoinProducer
    \/ StopJoinConsumer
    \/ ProducerNext
    \/ ConsumerLoop
    \/ ConsumerGet
    \/ ConsumerProcess
    \/ ConsumerTranscribe

InterruptSpec == RunInit /\ [][InterruptNext]_vars

(***************************************************************************)
(* Properties                                                              *)
(***************************************************************************)
\* stop() has returned: to its caller, or to reload(), which has not yet
\* started the next threads
StopReturned == ctl_pc \in {"stopped", "load_config", "start_async"}

AudioIn(q) == Cardinality({i \in DOMAIN q : q[i] # None})

Count(seq, x) == Cardinality({i \in DOMAIN seq : seq[i] = x})

\* C1: once stop() has been called with both workers running, both workers
\* exit and stop() returns.  Stated as progress: as long as stop() has not
\* returned, the producer, the consumer or stop() itself can take a step.
C1_StopTerminates ==
    ctl_pc \in {"join_producer", "join_consumer"} =>
        ENABLED (ProducerNext \/ ConsumerNext \/ StopJoinProducer
                    \/ StopJoinConsumer)

\* C2: when stop() returns, the producer and the consumer have both
\* terminated, and from then on neither listens, enqueues, transcribes or
\* emits, until start_async starts the next pair.
C2_StopQuiesces ==
    [][StopReturned =>
         /\ producer_pc = "done"
         /\ consumer_pc = "done"
         /\ ctl_pc' # "running" =>
                UNCHANGED <<queue, events, handled, audio, n_put, n_handled,
                            producer_pc, consumer_pc>>]_vars

C2_Witness ==
    /\ ctl_pc = "stopped"
    /\ producer_pc = "done"
    /\ consumer_pc = "done"
    /\ n_handled > 0

\* C3, as claimed: when stop() returns, every buffer the producer enqueued
\* has been handled and the queue holds no audio buffer.
C3_NoBufferLeft ==
    StopReturned => AudioIn(queue) = 0 /\ n_handled = n_put

\* C3, amended: when stop() returns, every buffer the producer enqueued has
\* either been handled to the end by the consumer or is still in the queue.
C3_HandledOrQueued ==
    StopReturned => n_put = n_handled + AudioIn(queue)

C3_Witness ==
    /\ ctl_pc = "stopped"
    /\ AudioIn(queue) > 0
    /\ n_handled > 0

Max0(n) == IF n > 0 THEN n ELSE 0

\* the count after a sequence of calls: +1 for a mute, -1 for an unmute, with
\* every intermediate result floored at 0
RECURSIVE FlooredCount(_)
FlooredCount(seq) ==
    IF seq = <<>> THEN 0
    ELSE LET before == FlooredCount(SubSeq(seq, 1, Len(seq) - 1))
         IN  IF seq[Len(seq)] = "mute" THEN before + 1 ELSE Max0(before - 1)

C5_MutedIffCounted == is_muted(Loop) <=> mute_calls > 0

C5_Witness ==
    /\ reloads > 0
    /\ ctl_pc = "running"
    /\ last_call = [name |-> "unmute", before |-> 2]
    /\ mute_calls = 1
    /\ is_muted(Loop)

\* C6: the mute count is never negative.
C6_CountNonNegative == mute_calls >= 0

C6_Witness ==
    /\ last_call = [name |-> "unmute", before |-> 0]
    /\ mute_calls = 0

\* C7: force_unmute() leaves the mute count at 0 and the microphone unmuted,
\* whatever the count was.
C7_ForceUnmuteResets ==
    last_call.name = "force_unmute" => mute_calls = 0 /\ ~is_muted(Loop)

C7_Witness ==
    /\ last_call = [name |-> "force_unmute", before |-> 2]
    /\ mute_calls = 0
    /\ ~is_muted(Loop)

\* C8, as claimed: the transcription path never runs while state.sleeping is
\* true.
C8_NoSttWhileSleeping ==
    ~(consumer_pc \in {"process", "stt"} /\ state.sleeping)

\* C8, amended: the transcription path runs for a buffer only if
\* state.sleeping was false when read() tested it for that buffer.
C8_SttOnlyIfObservedAwake ==
    consumer_pc \in {"process", "stt"} => ~observed_sleeping

C8_Witness ==
    /\ consumer_pc = "stt"
    /\ state.sleeping
    /\ ~observed_sleeping

\* the step with which wake_up ends after a detection
WakeUpEnds == consumer_pc = "wake_speak" /\ consumer_pc' = "loop"

ChangedOnceBetweenTicks == changes = 1 /\ last_change.at = "loop"

\* C11: when the configuration changes once between two ticks of run(), the
\* tick after the change starts a reload, that reload is carried out to its
\* end (stop, _load_config, start_async), the stored hash is then the hash of
\* the configuration loaded, and no later tick starts another reload.
C11_OneReloadPerChange ==
    /\ ChangedOnceBetweenTicks /\ ticks > last_change.tick => reloads = 1
    /\ ChangedOnceBetweenTicks /\ reloads = 1 /\ run_pc = "loop" =>
           config_hash = Hash(config) /\ config_core = config
    /\ run_pc = "reloading" =>
           ENABLED (ProducerNext \/ ConsumerNext \/ StopJoinProducer
                       \/ StopJoinConsumer \/ ReloadLoadConfig \/ StartAsync)

\* C12: across the reloads run() makes, at most one producer and one consumer
\* are alive at any time, and none is alive while reload() builds the new
\* microphone and state and starts the new threads.
C12_OneThreadPairAlive ==
    /\ alive.producer <= 1
    /\ alive.consumer <= 1
    /\ ctl_pc \in {"load_config", "start_async"} =>
           alive = [producer |-> 0, consumer |-> 0]

C12_Witness ==
    /\ reloads = 2
    /\ run_pc = "loop"
    /\ ctl_pc = "running"
    /\ alive = [producer |-> 1, consumer |-> 1]
    /\ producer_pc = "listen"
    /\ n_handled > 0

\* the STT call for the buffer handled last raised an HTTPError whose
\* response carries the status 401
AuthFailure ==
    /\ stt_outcome.kind = "HTTPError"
    /\ stt_outcome.response # None
    /\ stt_outcome.response.status_code = 401

\* C13: when the STT call raises ConnectionError, handling the buffer emits
\* exactly one recognizer_loop:no_internet event and no
\* recognizer_loop:utterance event.
C13_ConnectionErrorNoInternet ==
    stt_outcome.kind = "ConnectionError" =>
        /\ Count(events, "recognizer_loop:no_internet") = 1
        /\ Count(events, "recognizer_loop:utterance") = 0
        /\ utterances = <<>>

C13_Witness ==
    /\ stt_outcome.kind = "ConnectionError"
    /\ handled = "transcribed"
    /\ consumer_pc = "loop"

\* C14: when the STT call raises an HTTPError with status 401, handling the
\* buffer emits exactly one recognizer_loop:utterance event, with utterances
\* ["pair my device"], and no no_internet or speak event.
C14_AuthFailurePairs ==
    AuthFailure =>
        /\ Count(events, "recognizer_loop:utterance") = 1
        /\ utterances = << <<PairMyDevice>> >>
        /\ Count(events, "recognizer_loop:no_internet") = 0
        /\ Count(events, "speak") = 0
        /\ Count(events, "recognizer_loop:speak") = 0

C14_Witness ==
    /\ AuthFailure
    /\ handled = "transcribed"
    /\ text = PairMyDevice

\* C15: every failure of the STT call other than RequestError,
\* ConnectionError and the HTTPError with status 401 results in exactly one
\* speak event and no recognizer_loop:utterance event for the buffer.
C15_OtherFailureSpeaks ==
    (\/ stt_outcome.kind = "Exception"
     \/ stt_outcome.kind = "HTTPError" /\ ~AuthFailure) =>
        /\ Count(events, "speak") = 1
        /\ Count(events, "recognizer_loop:utterance") = 0

\* C16: when the STT call raises sr.RequestError, transcribe() emits no
\* utterance, no_internet or speak event for the buffer and has called the
\* backend once.
C16_RequestErrorSilent ==
    stt_outcome.kind = "RequestError" =>
        /\ Count(events, "recognizer_loop:utterance") = 0
        /\ Count(events, "recognizer_loop:no_internet") = 0
        /\ Count(events, "speak") = 0
        /\ Count(events, "recognizer_loop:speak") = 0
        /\ utterances = <<>>
        /\ stt_calls = 1

C16_Witness ==
    /\ stt_outcome.kind = "RequestError"
    /\ handled = "transcribed"
    /\ text = NoText
    /\ stt_calls = 1

\* n is raw without the whitespace at its two ends and with every upper-case
\* letter replaced by its lower-case form
IsLoweredTrimmed(n, raw) ==
    \E i \in 1..(Len(raw) + 1) : \E j \in (i - 1)..Len(raw) :
        /\ \A k \in 1..(i - 1) : raw[k] \in Whitespace
        /\ \A k \in (j + 1)..Len(raw) : raw[k] \in Whitespace
        /\ Len(n) = j - i + 1
        /\ \A k \in 1..Len(n) :
              /\ n[k] = raw[i + k - 1] \/ <<raw[i + k - 1], n[k]>> \in CasePairs
              /\ \A p \in CasePairs : n[k] # p[1]
        /\ n # <<>> => n[1] \notin Whitespace /\ n[Len(n)] \notin Whitespace

\* C17: when the STT call returns a text, transcribe() emits exactly one
\* recognizer_loop:utterance event, whose utterances list holds the lowered
\* and trimmed text, if that text is not empty, and no utterance event and
\* no other event if it is empty.
C17_UtteranceIsNormalizedText ==
    stt_outcome.kind = "returned" =>
        /\ Count(events, "recognizer_loop:no_internet") = 0
        /\ Count(events, "speak") = 0
        /\ Count(events, "recognizer_loop:speak") = 0
        /\ Count(events, "recognizer_loop:utterance") = Len(utterances)
        /\ IF IsLoweredTrimmed(<<>>, stt_outcome.raw)
           THEN utterances = <<>>
           ELSE /\ Len(utterances) = 1
                /\ Len(utterances[1]) = 1
                /\ utterances[1][1].kind = "str"
                /\ IsLoweredTrimmed(utterances[1][1].chars, stt_outcome.raw)

C17_Witness ==
    /\ stt_outcome = [kind |-> "returned", raw |-> <<"A", "\n">>]
    /\ utterances = << <<Str(<<"a">>)>> >>
    /\ handled = "transcribed"

\* a thread returns from its run()
ProducerEnds == producer_pc # "done" /\ producer_pc' = "done"
ConsumerEnds == consumer_pc # "done" /\ consumer_pc' = "done"

\* C19: while state.running is true neither worker thread terminates,
\* whatever exception the listen call, a detector or the STT backend raises.
C19_NoThreadEndsWhileRunning ==
    [][(ProducerEnds \/ ConsumerEnds) => ~state.running]_vars

\* an exception is raised inside wake_up or process for the dequeued buffer
RaisedInHandling ==
    /\ consumer_pc \in {"wake_up", "wake_speak", "process", "stt"}
    /\ handled' = "raised"

\* C20: an exception raised inside wake_up or process while one buffer is
\* handled leaves the consumer thread alive, back at the loop of run(), and
\* while running is still true its next step is to dequeue the next buffer.
C20_ConsumerSurvivesBadBuffer ==
    [][/\ RaisedInHandling =>
            /\ consumer_pc' = "loop"
            /\ alive'.consumer = alive.consumer
       /\ (/\ handled = "raised"
           /\ consumer_pc = "loop"
           /\ state.running
           /\ consumer_pc' # consumer_pc) => consumer_pc' = "get"]_vars

C20_Witness ==
    /\ handled = "raised"
    /\ consumer_pc = "get"
    /\ state.running
    /\ alive.consumer = 1
    /\ n_handled > 0

\* the buffer read() holds between queue.get() and its return
InHand ==
    IF consumer_pc \in {"wake_up", "wake_speak", "process", "stt"}
    THEN <<audio>> ELSE <<>>

\* the buffers enqueued are, in order: those handled, the one in hand,
\* those still queued
HandledInEnqueueOrder ==
    history.enqueued =
        [i \in DOMAIN history.log |-> history.log[i].audio] \o InHand
            \o SelectSeq(queue, LAMBDA a : a # None)

\* the buffer is at least 0.5 seconds long
HalfSecond(a) == 2 * a.len >= a.rate * a.width

\* the STT call returned a text that is not empty once lowered and trimmed
Transcribed(o) == o.kind = "returned" /\ normalize(o.raw) # <<>>

\* the STT call raised an HTTPError with status 401
Denied(o) ==
    /\ o.kind = "HTTPError"
    /\ o.response # None
    /\ o.response.status_code = 401

\* the utterances payloads due for the logged buffers, in order: the
\* transcript of every buffer of 0.5 seconds or more that transcribed and,
\* if pairing is counted, "pair my device" for every one that was denied
RECURSIVE Due(_, _)
Due(log, pairing) ==
    IF log = <<>> THEN <<>>
    ELSE LET e == Head(log)
         IN  (CASE HalfSecond(e.audio) /\ Transcribed(e.outcome) ->
                      << <<Str(normalize(e.outcome.raw))>> >>
                [] HalfSecond(e.audio) /\ pairing /\ Denied(e.outcome) ->
                      << <<PairMyDevice>> >>
                [] OTHER -> <<>>)
                 \o Due(Tail(log), pairing)

\* C18: the buffers enqueued while the loop is awake and running are handled
\* in enqueue order, each at most once, and the recognizer_loop:utterance
\* events emitted are exactly the transcripts of the buffers of at least 0.5
\* seconds that transcribe to a non-empty text, in that order.
C18_UtterancesAreTranscripts ==
    history.recording =>
        /\ HandledInEnqueueOrder
        /\ history.said = Due(history.log, FALSE)

\* C18, amended: as above, and a buffer of at least 0.5 seconds whose STT
\* call fails with status 401 contributes the utterance "pair my device" at
\* its place in the order.
C18_UtterancesAreTranscriptsOrPairing ==
    history.recording =>
        /\ HandledInEnqueueOrder
        /\ history.said = Due(history.log, TRUE)

C18_Witness ==
    /\ history.recording
    /\ Len(history.log) = 2
    /\ ~HalfSecond(history.log[1].audio)
    /\ history.log[1].outcome = NoCall
    /\ HalfSecond(history.log[2].audio)
    /\ history.log[2].outcome = [kind |-> "returned", raw |-> <<"a", " ", "B">>]
    /\ history.said = << <<Str(<<"a", " ", "b">>)>> >>

\* the producer's listen call ends with an IOError
ListenIOError ==
    /\ producer_pc = "listen"
    /\ producer_pc' # "listen"
    /\ history'.listened.outcome.kind = "IOError"

\* C21: when the listen call raises an IOError while running is true, the
\* producer emits exactly one recognizer_loop:ioerror event carrying that
\* error, enqueues nothing in that iteration and goes on to the next listen
\* call.
C21_IOErrorReportedAndSkipped ==
    [][/\ (history.recording /\ ListenIOError) =>
            /\ history'.listened.events =
                   <<[name |-> "recognizer_loop:ioerror",
                      error |-> history'.listened.outcome.error]>>
            /\ queue' = queue
            /\ n_put' = n_put
            /\ producer_pc' = "loop"
            /\ alive'.producer = alive.producer
       /\ (/\ history.listened.outcome.kind = "IOError"
           /\ producer_pc = "loop"
           /\ state.running
           /\ producer_pc' # producer_pc) => producer_pc' = "listen"]_vars

C21_Witness ==
    /\ history.recording
    /\ history.listened.outcome = [kind |-> "IOError",
                                   error |-> "input overflowed"]
    /\ Len(history.listened.events) = 1
    /\ producer_pc = "listen"
    /\ state.running

\* C22: when a KeyboardInterrupt is received in the loop of run(), stop() is
\* called and both worker threads have terminated before the interrupt is
\* raised again to the caller, and it is raised again in every case.
C22_InterruptStopsThenReraises ==
    /\ run_pc = "raised" =>
           /\ ~state.running
           /\ producer_pc = "done"
           /\ consumer_pc = "done"
           /\ alive = [producer |-> 0, consumer |-> 0]
    /\ run_pc = "interrupted" =>
           ENABLED (ProducerNext \/ ConsumerNext \/ StopJoinProducer
                       \/ StopJoinConsumer \/ RunReraise)

\* read() dequeues a None
SentinelRead ==
    /\ consumer_pc = "get"
    /\ consumer_pc' # "get"
    /\ queue # <<>>
    /\ Head(queue) = None

\* C23: dequeuing a None is a no-op: read() emits no event, calls no
\* detector, no STT backend and not the session registry, and leaves
\* state.sleeping and the pending hotword phrase unchanged.
C23_SentinelIsNoOp ==
    [][SentinelRead =>
          /\ events' = <<>>
          /\ utterances' = <<>>
          /\ reported' = <<>>
          /\ collab' = <<>>
          /\ stt_calls' = 0
          /\ state' = state
          /\ word' = word
          /\ consumer_pc' = "loop"]_vars

C23_Witness ==
    /\ handled = "sentinel"
    /\ audio = None
    /\ consumer_pc = "loop"
    /\ word # KeyPhrase

\* the calls of collaborator `name` made for the buffer in hand
CallsOf(name) == Cardinality({i \in DOMAIN collab : collab[i].call = name})

\* C24: the STT backend is invoked at most once per dequeued buffer,
\* whatever the outcome of the call, and no buffer is enqueued again or
\* handled a second time after a failure.
C24_NoRetry ==
    /\ stt_calls <= 1
    /\ CallsOf("stt.execute") = stt_calls
    /\ history.recording =>
           /\ Len(history.log) + Len(InHand) + AudioIn(queue) = n_put
           /\ Len(history.enqueued) = n_put
           /\ Cardinality({i \in DOMAIN history.log :
                             history.log[i].outcome # NoCall}) <= n_put

C24_Witness ==
    /\ history.recording
    /\ stt_calls = 1
    /\ stt_outcome.kind \in {"RequestError", "ConnectionError", "HTTPError",
                             "Exception"}
    /\ n_handled = 1
    /\ consumer_pc = "get"
    /\ queue = <<>>
    /\ n_put = 1

\* process() runs for the buffer in hand up to its length test
ProcessRuns == consumer_pc = "process" /\ consumer_pc' # "process"

\* transcribe() runs for the buffer in hand
TranscribeRuns == consumer_pc = "stt" /\ consumer_pc' # "stt"

\* the events of the buffer transcribe() adds to stay behind the one
\* recognizer_loop:wakeword event
WakewordStaysFirst ==
    TranscribeRuns =>
        /\ Count(events', "recognizer_loop:wakeword") = 1
        /\ events'[1] = "recognizer_loop:wakeword"
        /\ reported' = reported

\* C25: every buffer dispatched on the awake path yields exactly one
\* recognizer_loop:wakeword event carrying the pending phrase, too short or
\* not, and that event comes before any utterance, no_internet or speak
\* event of the buffer.
C25_OneWakewordFirst ==
    [][/\ ProcessRuns =>
            /\ events' = <<"recognizer_loop:wakeword">>
            /\ reported' = <<word>>
       /\ WakewordStaysFirst]_vars

\* C25, amended: as above unless SessionManager.touch() raises, in which
\* case the buffer yields no event at all.
C25_OneWakewordFirstUnlessTouchRaises ==
    [][/\ ProcessRuns =>
            IF collab' = <<Called("SessionManager.touch", "ok")>>
            THEN /\ events' = <<"recognizer_loop:wakeword">>
                 /\ reported' = <<word>>
            ELSE /\ collab' = <<Called("SessionManager.touch", "raised")>>
                 /\ events' = <<>>
                 /\ reported' = <<>>
                 /\ handled' = "raised"
       /\ WakewordStaysFirst]_vars

C25_Witness ==
    /\ handled = "too_short"
    /\ events = <<"recognizer_loop:wakeword">>
    /\ reported = <<"hey jarbas">>
    /\ consumer_pc = "loop"

\* the handling of a buffer on the awake path ends
AwakeHandlingEnds ==
    /\ consumer_pc \in {"process", "stt"}
    /\ consumer_pc' \notin {"process", "stt"}

\* C26: after the consumer has finished handling a buffer on the awake path,
\* discarded as too short, transcribed or failed with an exception, the
\* pending hotword phrase is the default wake phrase.
C26_PhraseResetAfterHandling ==
    [][AwakeHandlingEnds => word' = KeyPhrase]_vars

\* C27: after a recognizer_loop:hotword event selecting phrase p has been
\* delivered, the next recognizer_loop:wakeword event carries p, however the
\* delivery interleaves with the consumer's process of an earlier buffer.
C27_NextWakewordCarriesHotword ==
    [][(/\ ProcessRuns
        /\ requested # NoPhrase
        /\ Len(reported') > Len(reported)) =>
              reported'[Len(reported')] = requested]_vars

\* C28: a buffer for which read() observes state.sleeping true is passed only
\* to the wake-up detector: handling it emits no recognizer_loop:wakeword and
\* no utterance event and never calls the STT backend, detection or not.
C28_AsleepBufferOnlyDetected ==
    (observed_sleeping /\ audio # None) =>
        /\ Count(events, "recognizer_loop:wakeword") = 0
        /\ Count(events, "recognizer_loop:utterance") = 0
        /\ reported = <<>>
        /\ utterances = <<>>
        /\ stt_calls = 0
        /\ CallsOf("stt.execute") = 0
        /\ consumer_pc \notin {"process", "stt"}

C28_Witness ==
    /\ observed_sleeping
    /\ handled = "woken"
    /\ collab[1] = Called("found_wake_word", "found")
    /\ events = <<"speak">>
    /\ stt_calls = 0

\* wake_up() runs for the buffer in hand and the detector reports no
\* detection
WakeUpMisses ==
    /\ consumer_pc = "wake_up"
    /\ consumer_pc' # "wake_up"
    /\ collab' # <<>>
    /\ collab'[1] = Called("found_wake_word", "missed")

\* C29: when the consumer handles a buffer while asleep and the wake-up
\* detector reports no detection, nothing changes: state.sleeping keeps its
\* value, no event is emitted, the session is not touched, the pending
\* phrase is unchanged and the buffer is dropped.
C29_MissChangesNothing ==
    [][WakeUpMisses =>
          /\ state' = state
          /\ collab' = <<Called("found_wake_word", "missed")>>
          /\ events' = <<>>
          /\ utterances' = <<>>
          /\ reported' = <<>>
          /\ stt_calls' = 0
          /\ word' = word
          /\ queue' = queue
          /\ consumer_pc' = "loop"]_vars

C29_Witness ==
    /\ handled = "asleep_missed"
    /\ collab = <<Called("found_wake_word", "missed")>>
    /\ state.sleeping
    /\ events = <<>>
    /\ consumer_pc = "get"

\* ---------------------------------------------------------------------
\* C30: immediately after every start and every reload the shared state has
\* running = true and sleeping = false, and the new producer and consumer
\* share a new empty queue, whatever sleeping and the old queue were before.
\* start_async only assigns state.running on the state object made by
\* _load_config, so a sleep() before the start survives it.
StartReturns ==
    /\ ctl_pc \in {"constructed", "start_async"}
    /\ ctl_pc' = "running"

C30_StartGivesFreshState ==
    [][StartReturns =>
          /\ state'.running
          /\ ~state'.sleeping
          /\ queue' = <<>>
          /\ producer_pc' = "calibrate"
          /\ consumer_pc' = "loop"]_vars

\* ---------------------------------------------------------------------
\* C31: whenever the producer thread has terminated (the loop ended, or an
\* exception escaped the listen loop, after a calibration that succeeded or
\* failed) the microphone it opened is closed again; the microphone is open
\* only while the producer thread is inside run().
C31_MicrophoneScopedToRun ==
    /\ producer_pc \in {"unstarted", "done"} => microphone.stream = "closed"
    /\ microphone.stream = "open" => producer_pc \in {"loop", "listen"}
    /\ producer_pc \in {"loop", "listen"} => microphone.stream = "open"

\* an exception escaped the listen loop of a loop that is still running
C31_Witness ==
    /\ producer_pc = "done"
    /\ state.running
    /\ ctl_pc = "running"
    /\ microphone.stream = "closed"

\* ---------------------------------------------------------------------
\* the producer's calibration step
CalibrationEnds == producer_pc = "calibrate" /\ producer_pc' # "calibrate"

\* a listen call of the producer returns a captured buffer
ListenReturnsAudio ==
    /\ producer_pc = "listen"
    /\ producer_pc' # "listen"
    /\ history'.listened.outcome.kind = "audio"

\* C32: if the ambient-noise calibration raises when the producer starts,
\* the producer still enters its listen loop, with the microphone open and
\* nothing else changed, and every buffer a later listen call returns is
\* enqueued, as after a calibration that succeeded.
C32_CalibrationFailureNotFatal ==
    [][/\ (history.recording /\ CalibrationEnds) =>
            /\ producer_pc' = "loop"
            /\ microphone'.stream = "open"
            /\ alive' = alive
            /\ <<state, queue, n_put>>' = <<state, queue, n_put>>
       /\ (history.recording /\ ListenReturnsAudio) =>
            /\ queue' = Append(queue, history'.listened.outcome.buffer)
            /\ producer_pc' = "loop"]_vars

C32_Witness ==
    /\ history.recording
    /\ history.calibration = "raised"
    /\ Len(history.enqueued) = MaxBuffers
    /\ n_put = MaxBuffers
    /\ producer_pc = "listen"

\* ---------------------------------------------------------------------
\* stop() is entered: by its caller, by reload() or by run()
StopCalled == ctl_pc = "running" /\ ctl_pc' = "join_producer"

\* wake_up finds the wake-up phrase in the buffer
WakeUpDetects ==
    /\ consumer_pc = "wake_up"
    /\ consumer_pc' = "wake_speak"
    /\ Called("found_wake_word", "found") \in {collab'[i] : i \in DOMAIN collab'}

RunningWrittenByOrchestrator ==
    state'.running # state.running => (StartReturns \/ StopCalled)

\* C33: state.running is changed only by the orchestrator operations start,
\* stop and reload, and state.sleeping only by the consumer on a wake-up
\* detection: each field has exactly one writer role.
C33_OneWriterEach ==
    [][/\ RunningWrittenByOrchestrator
       /\ state'.sleeping # state.sleeping => WakeUpDetects]_vars

\* C33, amended: state.sleeping has three writers, the consumer on a wake-up
\* detection, the orchestrator's sleep() and awaken(), and the new state
\* that reload's _load_config constructs.
C33_WritersOfState ==
    [][/\ RunningWrittenByOrchestrator
       /\ state'.sleeping # state.sleeping =>
              (WakeUpDetects \/ Sleep \/ Awaken \/ ReloadLoadConfig)]_vars

\* sleep() put a loop to sleep that the consumer had never woken
C33_Witness ==
    /\ state.sleeping
    /\ state.running
    /\ consumer_pc = "wake_up"
    /\ observed_sleeping

\* ---------------------------------------------------------------------
\* every external thread has made its call and the call has returned
AllReturned == \A t \in Callers : callers[t].pc = "returned"

\* one call made alone
SequentialCall(op, l) == IF op = "mute" THEN mute(l) ELSE unmute(l)

RECURSIVE SequentialResults(_, _)
\* the loops that the calls of the threads in S leave when they run one
\* after another, in any order, from loop l
SequentialResults(l, S) ==
    IF S = {} THEN {l}
    ELSE UNION {SequentialResults(SequentialCall(callers[t].op, l), S \ {t}) :
                  t \in S}

\* C34: when external threads call mute() and unmute() at the same time, no
\* update is lost: the count and the microphone are as some sequential order
\* of the same calls leaves them, so the microphone is muted iff the count
\* is greater than 0.
C34_ConcurrentCallsSerializable ==
    AllReturned =>
        /\ Loop \in SequentialResults(
                        [mute_calls |-> 0,
                         microphone |-> MutableMicrophone(FALSE)], Callers)
        /\ MicIsMuted(microphone) <=> mute_calls > 0

\* ---------------------------------------------------------------------
\* the calls of SessionManager.touch() made for the buffer in hand
Touches == CallsOf("SessionManager.touch")

\* the wake-up detections made for the buffer in hand
Detections ==
    Cardinality({i \in DOMAIN collab :
                   collab[i] = Called("found_wake_word", "found")})

\* the buffer in hand went to process(), which has made its first call
PastTouchAwake ==
    /\ handled \notin {"none", "sentinel"}
    /\ ~observed_sleeping
    /\ consumer_pc # "process"

\* the buffer in hand went to wake_up()
HandledAsleep == handled \notin {"none", "sentinel"} /\ observed_sleeping

\* C35: SessionManager.touch is called exactly once for every buffer handled
\* on the awake path and exactly once for every wake-up detection while
\* asleep, and not at all for a buffer handled asleep without a detection or
\* for a None sentinel.
C35_SessionTouchedOncePerEvent ==
    /\ PastTouchAwake => Touches = 1
    /\ HandledAsleep => Touches = Detections /\ Detections <= 1
    /\ handled = "asleep_missed" => Touches = 0
    /\ handled = "woken" => Touches = 1
    /\ handled = "sentinel" => Touches = 0
    /\ consumer_pc = "process" => Touches = 0

\* a wake-up detection, its one refresh made, and the consumer back at its
\* loop
C35_Witness ==
    /\ handled = "woken"
    /\ observed_sleeping
    /\ Touches = 1
    /\ consumer_pc = "loop"

\* ---------------------------------------------------------------------
\* the keys of self.hot_word_engines
RegistryKeys == DOMAIN hot.hot_word_engines

\* the configured phrases other than the wake phrase and the wake-up phrase
\* whose entry is active; an entry without the flag is active
ExpectedKeys ==
    {w \in DOMAIN hot.hot_words :
       /\ w # KeyPhrase
       /\ w # WakeUpPhrase
       /\ Get(hot.hot_words[w], "active", TRUE)}

\* the expected phrases whose entry has no "module" key
WithoutModule ==
    {w \in ExpectedKeys : "module" \notin DOMAIN hot.hot_words[w]}

\* C36: after create_hot_word_engines the keys of the hotword registry are
\* the configured hotword phrases minus the wake phrase, minus the wake-up
\* phrase, minus every entry whose active flag is false.
C36_RegistryKeys ==
    hot.pc \in {"returned", "KeyError"} => RegistryKeys = ExpectedKeys

\* C36, amended: that holds when every such entry has a "module" key; when
\* one has none, create_hot_word_engines raises KeyError at that entry and
\* the registry holds only expected entries iterated before it.
C36_RegistryKeysWhenModulesPresent ==
    /\ hot.pc = "returned" =>
           RegistryKeys = ExpectedKeys /\ WithoutModule = {}
    /\ hot.pc = "KeyError" =>
           /\ WithoutModule # {}
           /\ RegistryKeys \subseteq ExpectedKeys \ WithoutModule
    /\ (WithoutModule = {} /\ hot.todo = {}) => hot.pc # "KeyError"
    /\ RegistryKeys \subseteq ExpectedKeys

\* all four phrases configured: one hotword without the flag, one inactive
C36_Witness ==
    /\ hot.pc = "returned"
    /\ DOMAIN hot.hot_words = Phrases
    /\ RegistryKeys = {"hey jarbas"}
    /\ "active" \notin DOMAIN hot.hot_words["hey jarbas"]
    /\ ~hot.hot_words["thank you"]["active"]

\* ---------------------------------------------------------------------
\* the producer reads state.running at the top of its loop
ProducerObserves == producer_pc = "loop" /\ producer_pc' # "loop"

\* the listen call that was in progress ends
ListenEnds == producer_pc = "listen" /\ producer_pc' # "listen"

\* C37: after state.running has been set to false the producer starts no
\* new listen call once it has read the flag, and enqueues at most one
\* further buffer, the one of the listen call that was in progress: the
\* read of the cleared flag ends the thread with nothing enqueued, the call
\* in progress enqueues at most one buffer and leads to that read or to the
\* end of the thread, and the flag is not set again before the thread ends.
C37_ProducerStopsAfterFlag ==
    [][/\ (~state.running /\ ProducerObserves) =>
            producer_pc' = "done" /\ queue' = queue
       /\ (~state.running /\ ListenEnds) =>
            /\ producer_pc' \in {"loop", "done"}
            /\ queue' = queue \/ \E a \in ListenBuffers \cup {None} :
                                    queue' = Append(queue, a)
       /\ (~state.running /\ state'.running) =>
            producer_pc \in {"unstarted", "done"}]_vars

\* stop() interrupted the listen call in progress, whose None was enqueued
\* as the one further buffer, and the producer has ended
C37_Witness ==
    /\ ~state.running
    /\ producer_pc = "done"
    /\ ctl_pc = "join_producer"
    /\ queue # <<>>
    /\ queue[Len(queue)] = None

\* ---------------------------------------------------------------------
\* a step of stop(), reload() or start_async
OrchestratorStep == ctl_pc' # ctl_pc

\* reload's _load_config builds the new microphone
MicrophoneRebuilt == ctl_pc = "load_config" /\ ctl_pc' = "start_async"

\* C38: reload() leaves the mute count unchanged, and the microphone that
\* the reload builds starts muted iff the mute count is greater than 0: a
\* mute requested before a reload is still in effect after it.
C38_ReloadKeepsMute ==
    [][/\ OrchestratorStep => mute_calls' = mute_calls
       /\ MicrophoneRebuilt =>
            /\ MicIsMuted(microphone') <=> mute_calls > 0
            /\ microphone'.stream = "closed"]_vars

\* a reload has built its microphone, muted for the one mute() before it
C38_Witness ==
    /\ ctl_pc = "start_async"
    /\ ctl_op = "reload"
    /\ mute_calls = 1
    /\ last_call = [name |-> "mute", before |-> 0]
    /\ MicIsMuted(microphone)

\* ---------------------------------------------------------------------
\* C39: when an external thread calls stop() while the supervisory loop of
\* run() is active, then after that stop() has returned no worker thread is
\* alive and none is started again, in every interleaving, a stop() that
\* arrives between a reload's own stop and its start_async included.
C39_ExternalStopIsFinal ==
    ext_pc = "returned" =>
        /\ alive = [producer |-> 0, consumer |-> 0]
        /\ producer_pc = "done"
        /\ consumer_pc = "done"
        /\ ~state.running

\* ---------------------------------------------------------------------
\* at most one service displays, and it is the current one
OneDisplay ==
    /\ Cardinality(display.displaying) <= 1
    /\ display.displaying \subseteq {display.current}

\* current is None or the service on which show was last called
CurrentIsLastShown == display.current \in {NoService, display.shown}

\* the last request was a show with no prefered service and there is no
\* default backend
ShowWithoutService ==
    /\ display.request[1] = "show"
    /\ display.request[2] = NoService
    /\ display.default = NoService

====
